---- MODULE Spec2Model ----
(***************************************************************************)
(* Model of the mTLS demonstration servers of alan-kmathew/mtls_mock.       *)
(*                                                                         *)
(* Three server scripts are modelled:                                      *)
(*   "part_000"  src/unnamed/part_000          (load PEM files, express)   *)
(*   "part_001"  src/unnamed/part_001:1-141    (generate-or-load, express) *)
(*   "copy"      src/unnamed/part_001:144-207  (mtlsserver copy.js, plain  *)
(*               https request listener)                                   *)
(* The process runs one of them: synchronous start-up (bootstrap of the    *)
(* PEM files, createServer, listen), then the event loop serving TLS       *)
(* connections.  The TLS handshake itself is done by the runtime; it is    *)
(* modelled from the options the scripts pass to https.createServer.       *)
(***************************************************************************)
EXTENDS Integers, Sequences, FiniteSets, TLC

\* ---------------------------------------------------------------- bounds
MaxRuns == 2        \* process starts (a start, then restarts)
MaxConns == 2       \* connections accepted during one run

\* ------------------------------------------------------- program constants
Variants == {"part_000", "part_001", "copy"}

keyFile == "server_key.pem"
certFile == "server_cert.pem"
caFile == "ca_cert.pem"
FileNames == {keyFile, certFile, caFile}

\* What a path holds: nothing, a file that cannot be read, or a readable
\* PEM file.  content 0 is whatever was on disk before the program ran,
\* content n > 0 is the output of the n-th run of openssl.
FileStates == {"absent", "unreadable", "ok"}

VARIABLES
    variant,      \* which script this process runs
    files,        \* the three PEM paths on disk
    genSerial,    \* number of openssl runs that wrote something so far
    pc,           \* "start" | "binding" | "listening" | "exited"
    exitCode,     \* exit status once pc = "exited", -1 before
    listenCalled, \* server.listen has been called in this run
    bindError,    \* the server emitted 'error' for listen in this run
    runHist,      \* one record per start-up that has run (history)
    conns,        \* the connections of this run, by slot
    uncaughtLogged, \* the 'uncaughtException' listener has logged in this run
    orch          \* the test-server orchestrator, when it started the server

vars == <<variant, files, genSerial, pc, exitCode, listenCalled, bindError,
          runHist, conns, uncaughtLogged, orch>>

\* fs.existsSync(path.resolve(__dirname, filename))
existsSync(fs, f) == fs[f].st # "absent"

\* ------------------------------------------------------------- bootstrap
\* Outcomes of the openssl subprocess started by execSync: it writes both
\* files, or fails before writing, or fails after the key was written.
GenOutcomes == {"ok", "fail", "fail_after_key"}

generateCertificateKeyOnly(fs, outcome, serial) ==
    IF outcome \in {"ok", "fail_after_key"}
    THEN [fs EXCEPT ![keyFile] = [st |-> "ok", content |-> serial]]
    ELSE fs

\* generateCertificate(keyFile, certFile): the files after the subprocess.
generateCertificate(fs, outcome, serial) ==
    CASE outcome = "ok" ->
            [fs EXCEPT ![keyFile] = [st |-> "ok", content |-> serial],
                       ![certFile] = [st |-> "ok", content |-> serial]]
      [] outcome = "fail_after_key" ->
            [fs EXCEPT ![keyFile] = [st |-> "ok", content |-> serial]]
      [] OTHER -> fs

needsGenerationAlways(fs) == TRUE

\* The existence test that guards generateCertificate.
needsGeneration(fs) == ~existsSync(fs, keyFile) \/ ~existsSync(fs, certFile)

\* Whether the script generates at all.
generates(v) == v = "part_001"

loadCertificateUnchecked(fs, f) == TRUE

\* loadCertificate(filename) returns (TRUE) or throws (FALSE).
loadCertificate(fs, f) == fs[f].st = "ok"

\* All three loads of the options object succeed.
loadAll(fs) ==
    /\ loadCertificate(fs, keyFile)
    /\ loadCertificate(fs, certFile)
    /\ loadCertificate(fs, caFile)

\* process.exit(1) in the catch block of part_000 / part_001.
ExitFailure == 1
\* Exit status of the runtime when an exception reaches the top level with no
\* 'uncaughtException' listener (the copy has no try around its loads).
UncaughtExitCode == 1
\* Exit status of a process ended by server.kill() (SIGTERM, 128 + 15).
KilledExitCode == 143

\* Exit status of a start-up that threw.
startupFailureCode(v) == IF v = "copy" THEN UncaughtExitCode ELSE ExitFailure

\* ------------------------------------------------------ transport policy
Versions == {"TLSv1.1", "TLSv1.2", "TLSv1.3"}

VersionRank(ver) ==
    CASE ver = "TLSv1.1" -> 1
      [] ver = "TLSv1.2" -> 2
      [] ver = "TLSv1.3" -> 3

\* The value of options.ciphers in part_000 / part_001.
CipherAllowList ==
    {"ECDHE-ECDSA-AES128-GCM-SHA256", "ECDHE-RSA-AES128-GCM-SHA256",
     "ECDHE-ECDSA-AES256-GCM-SHA384", "ECDHE-RSA-AES256-GCM-SHA384"}

\* What the runtime uses where the options leave a field out (the copy):
\* its default version window and its default cipher list, which holds the
\* four suites above and others.
DefaultMinVersion == "TLSv1.2"
DefaultMaxVersion == "TLSv1.3"
DefaultCiphers ==
    CipherAllowList \cup {"DHE-RSA-AES128-GCM-SHA256", "TLS_AES_128_GCM_SHA256"}

optionsNoReject(v) ==
    [requestCert |-> TRUE, rejectUnauthorized |-> FALSE,
     minVersion |-> "TLSv1.2", maxVersion |-> "TLSv1.3",
     ciphers |-> CipherAllowList]

\* The options object handed to https.createServer.  "unset" / {} stand for
\* a field the script does not give.
options(v) ==
    IF v = "copy"
    THEN [requestCert |-> TRUE, rejectUnauthorized |-> TRUE,
          minVersion |-> "unset", maxVersion |-> "unset", ciphers |-> {}]
    ELSE [requestCert |-> TRUE, rejectUnauthorized |-> TRUE,
          minVersion |-> "TLSv1.2", maxVersion |-> "TLSv1.3",
          ciphers |-> CipherAllowList]

effectiveMin(o) == IF o.minVersion = "unset" THEN DefaultMinVersion ELSE o.minVersion
effectiveMax(o) == IF o.maxVersion = "unset" THEN DefaultMaxVersion ELSE o.maxVersion
effectiveCiphers(o) == IF o.ciphers = {} THEN DefaultCiphers ELSE o.ciphers

\* ------------------------------------------------------------- clients
\* A client certificate as the server sees it: whether one was presented,
\* whether it chains to ca_cert.pem, whether today lies in its validity
\* window, and the fields getPeerCertificate() reports.
NoCert ==
    [present |-> FALSE, chains |-> FALSE, inWindow |-> FALSE,
     subject |-> "", issuer |-> "", valid_from |-> "", valid_to |-> ""]
TestClientCert ==
    [present |-> TRUE, chains |-> TRUE, inWindow |-> TRUE,
     subject |-> "CN=TestClient", issuer |-> "CN=Test CA",
     valid_from |-> "Jan 1 2026", valid_to |-> "Jan 1 2027"]
ExpiredCert ==
    [present |-> TRUE, chains |-> TRUE, inWindow |-> FALSE,
     subject |-> "CN=OldClient", issuer |-> "CN=Test CA",
     valid_from |-> "Jan 1 2024", valid_to |-> "Jan 1 2025"]
SelfSignedCert ==
    [present |-> TRUE, chains |-> FALSE, inWindow |-> TRUE,
     subject |-> "CN=Mallory", issuer |-> "CN=Mallory",
     valid_from |-> "Jan 1 2026", valid_to |-> "Jan 1 2027"]
Certs == {NoCert, TestClientCert, ExpiredCert, SelfSignedCert}

GoodCipher == "ECDHE-RSA-AES128-GCM-SHA256"

\* The clients that connect: every certificate with an accepted version and
\* cipher, and the trusted certificate with a version below the window, with
\* TLSv1.3 and one of its suites, with a suite that only the runtime's
\* default list holds, and with a suite no list holds.
Clients ==
    [cert : Certs, version : {"TLSv1.2"}, cipher : {GoodCipher}]
    \cup {[cert |-> TestClientCert, version |-> "TLSv1.1", cipher |-> GoodCipher],
          [cert |-> TestClientCert, version |-> "TLSv1.3",
           cipher |-> "TLS_AES_128_GCM_SHA256"],
          [cert |-> TestClientCert, version |-> "TLSv1.2",
           cipher |-> "DHE-RSA-AES128-GCM-SHA256"],
          [cert |-> TestClientCert, version |-> "TLSv1.2", cipher |-> "RC4-SHA"]}

\* The runtime's verification of the peer certificate against options.ca.
verifyPeer(cert) == cert.present /\ cert.chains /\ cert.inWindow

\* Version and cipher negotiation under the options.
negotiates(o, cl) ==
    /\ VersionRank(cl.version) >= VersionRank(effectiveMin(o))
    /\ VersionRank(cl.version) <= VersionRank(effectiveMax(o))
    /\ cl.cipher \in effectiveCiphers(o)

\* tlsSocket.authorized after the handshake.
authorizedFlag(o, cl) == o.requestCert /\ verifyPeer(cl.cert)

\* The handshake completes and the socket is handed to the HTTP server:
\* with rejectUnauthorized the runtime destroys a socket whose peer failed
\* verification.
handshakeAccepted(o, cl) ==
    /\ negotiates(o, cl)
    /\ (o.requestCert /\ o.rejectUnauthorized) => verifyPeer(cl.cert)

\* ------------------------------------------------------ request handling
Methods == {"GET", "POST", "OPTIONS"}
Paths == {"/", "/api/health"}
Requests == [method : Methods, path : Paths]

\* A response: the HTTP status, whether the CORS headers were set, the keys
\* of the JSON body ({} for a text body) with the values of status, message
\* and clientInfo ({} when the body has none), the text of a text body, and
\* whether the code that produced it branched on req.client.authorized.
NoInfo == {}
Response(st, cors, keys, status, message, info, text, checked) ==
    [code |-> st, cors |-> cors, keys |-> keys, status |-> status,
     message |-> message, clientInfo |-> info, text |-> text,
     checked |-> checked]

NoResp == Response(0, FALSE, {}, "", "", NoInfo, "", FALSE)

statusHandlerUngated(authorized, clientCert) ==
    Response(200, TRUE, {"status", "message", "clientInfo"}, "success",
             "mTLS connection successful",
             {[subject |-> clientCert.subject, issuer |-> clientCert.issuer,
               valid_from |-> clientCert.valid_from,
               valid_to |-> clientCert.valid_to]},
             "", FALSE)

\* app.get('/') of part_000 / part_001.
statusHandler(authorized, clientCert) ==
    IF authorized
    THEN Response(200, TRUE, {"status", "message", "clientInfo"}, "success",
                  "mTLS connection successful",
                  {[subject |-> clientCert.subject,
                    issuer |-> clientCert.issuer,
                    valid_from |-> clientCert.valid_from,
                    valid_to |-> clientCert.valid_to]},
                  "", TRUE)
    ELSE Response(401, TRUE, {"status", "message"}, "error",
                  "Client certificate verification failed", NoInfo, "", TRUE)

\* res.sendStatus(200) of the app.use middleware, after the CORS headers.
preflightResponse == Response(200, TRUE, {}, "", "", NoInfo, "OK", FALSE)

expressAppCatchAll(authorized, clientCert, req) ==
    IF req.method = "OPTIONS"
    THEN preflightResponse
    ELSE IF req.method = "GET" /\ req.path = "/"
         THEN statusHandler(authorized, clientCert)
         ELSE Response(200, TRUE, {"status"}, "ok", "", NoInfo, "", FALSE)

\* The express application of part_000 / part_001: the app.use middleware,
\* then the route, then express's answer for a request no route matches.
expressApp(authorized, clientCert, req) ==
    IF req.method = "OPTIONS"
    THEN preflightResponse
    ELSE IF req.method = "GET" /\ req.path = "/"
         THEN statusHandler(authorized, clientCert)
         ELSE Response(404, TRUE, {}, "", "", NoInfo, "Cannot", FALSE)

\* The request listener of the copy.
copyListener(authorized, req) ==
    IF authorized
    THEN Response(200, FALSE, {}, "", "", NoInfo,
                  "Hello, secure world! mTLS connection successful.", TRUE)
    ELSE Response(401, FALSE, {}, "", "", NoInfo,
                  "Client certificate verification failed.", TRUE)

\* The response of the script to a request on a connection.
handleRequest(v, authorized, clientCert, req) ==
    IF v = "copy"
    THEN copyListener(authorized, req)
    ELSE expressApp(authorized, clientCert, req)

\* The application callbacks a request runs.
requestCallbacks(v, req) ==
    IF v = "copy" THEN {"handler"}
    ELSE IF req.method = "OPTIONS" THEN {"middleware"}
    ELSE IF req.method = "GET" /\ req.path = "/" THEN {"middleware", "handler"}
    ELSE {"middleware"}

\* The script registers a process.on('uncaughtException') listener.
hasUncaughtListener(v) == v # "copy"

\* ------------------------------------------------------------ the process
ConnIds == 1..MaxConns

NoClient == [cert |-> NoCert, version |-> "", cipher |-> ""]

IdleConn ==
    [state |-> "Idle", client |-> NoClient, open |-> FALSE,
     authorized |-> FALSE, ran |-> {}, resp |-> NoResp]

\* The orchestrator process: whether it runs, its 2-second timer, the
\* diagnostics child, whether server.kill() has been called on the server
\* child, which handler ended it and the status it exited with.
NoOrch ==
    [pc |-> "off", timer |-> "none", diag |-> "none", killIssued |-> FALSE,
     cause |-> "none", exit |-> -1]

\* After the top level has run: server child spawned, timer armed, SIGINT
\* listener registered.
StartedOrch ==
    [pc |-> "running", timer |-> "pending", diag |-> "none",
     killIssued |-> FALSE, cause |-> "none", exit |-> -1]

InitFiles ==
    {fs \in [FileNames -> [st : FileStates, content : {0}]] : TRUE}

Init ==
    /\ variant \in Variants
    /\ files \in InitFiles
    /\ genSerial = 0
    /\ pc = "start"
    /\ exitCode = -1
    /\ listenCalled = FALSE
    /\ bindError = FALSE
    /\ runHist = <<>>
    /\ conns = [c \in ConnIds |-> IdleConn]
    /\ uncaughtLogged = FALSE
    /\ orch = NoOrch

\* The synchronous top level of the script: generate if needed, load the
\* three PEM files, create the server, register the listeners, call listen;
\* an exception on the way ends the process.
Startup ==
    /\ pc = "start"
    /\ LET gen == generates(variant) /\ needsGeneration(files) IN
       \E outcome \in (IF gen THEN GenOutcomes ELSE {"none"}) :
         LET fs1 == IF gen
                    THEN generateCertificate(files, outcome, genSerial + 1)
                    ELSE files
             ok == outcome \in {"ok", "none"} /\ loadAll(fs1)
         IN /\ files' = fs1
            /\ genSerial' = IF fs1 # files THEN genSerial + 1 ELSE genSerial
            /\ runHist' = Append(runHist,
                             [startFiles |-> files,
                              genCalls |-> IF gen THEN 1 ELSE 0,
                              genOutcome |-> outcome,
                              endFiles |-> fs1,
                              listen |-> ok,
                              exit |-> IF ok THEN -1
                                       ELSE startupFailureCode(variant)])
            /\ listenCalled' = ok
            /\ pc' = IF ok THEN "binding" ELSE "exited"
            /\ exitCode' = IF ok THEN -1 ELSE startupFailureCode(variant)
    /\ UNCHANGED <<orch, variant, bindError, conns, uncaughtLogged>>

\* The port is bound: the listen callback logs.
BindOk ==
    /\ pc = "binding"
    /\ pc' = "listening"
    /\ UNCHANGED <<orch, variant, files, genSerial, exitCode, listenCalled,
                   bindError, runHist, conns, uncaughtLogged>>

\* The port cannot be bound: the server emits 'error', the listener logs it
\* and returns; no handle is left open, so the event loop drains and the
\* process ends with status 0.
BindFail ==
    /\ pc = "binding"
    /\ bindError' = TRUE
    /\ pc' = "exited"
    /\ exitCode' = 0
    /\ UNCHANGED <<orch, variant, files, genSerial, listenCalled, runHist, conns,
                   uncaughtLogged>>

\* server.kill() of the orchestrator ends the server process, and its
\* connections with it.
Stop ==
    /\ pc \in {"binding", "listening"}
    /\ pc' = "exited"
    /\ exitCode' = KilledExitCode
    /\ conns' = [c \in ConnIds |-> IdleConn]
    /\ UNCHANGED <<orch, variant, files, genSerial, listenCalled, bindError,
                   runHist, uncaughtLogged>>

\* The script is started again on the same directory.
Restart ==
    /\ pc = "exited"
    /\ Len(runHist) < MaxRuns
    /\ pc' = "start"
    /\ exitCode' = -1
    /\ listenCalled' = FALSE
    /\ bindError' = FALSE
    /\ uncaughtLogged' = FALSE
    /\ UNCHANGED <<orch, variant, files, genSerial, runHist, conns>>

ConnectRetry(c, cl) ==
    /\ pc = "listening"
    /\ conns[c].state \in {"Idle", "Rejected"}
    /\ conns' = [conns EXCEPT ![c] = [IdleConn EXCEPT !.state = "Pending",
                                                      !.client = cl]]
    /\ UNCHANGED <<orch, variant, files, genSerial, pc, exitCode, listenCalled,
                   bindError, runHist, uncaughtLogged>>

\* A client opens a connection.
Connect(c, cl) ==
    /\ pc = "listening"
    /\ conns[c].state = "Idle"
    /\ \A d \in ConnIds : d < c => conns[d].state # "Idle"
    /\ conns' = [conns EXCEPT ![c] = [IdleConn EXCEPT !.state = "Pending",
                                                      !.client = cl]]
    /\ UNCHANGED <<orch, variant, files, genSerial, pc, exitCode, listenCalled,
                   bindError, runHist, uncaughtLogged>>

\* The callbacks of the script that a completed handshake runs and that
\* leave a trace on the connection; a failed one is reported to the
\* 'tlsClientError' listener, which only logs.
handshakeCallbacks(v, accepted) ==
    IF accepted /\ v # "copy" THEN {"secureConnection"} ELSE {}

\* The handshake of a connection ends: established, or destroyed by the
\* runtime.
Handshake(c) ==
    /\ pc = "listening"
    /\ conns[c].state = "Pending"
    /\ LET o == options(variant)
           cl == conns[c].client
           accepted == handshakeAccepted(o, cl)
           auth == accepted /\ authorizedFlag(o, cl)
       IN conns' = [conns EXCEPT ![c] =
                     [@ EXCEPT !.state = IF auth THEN "Authenticated"
                                         ELSE "Rejected",
                               !.open = accepted,
                               !.authorized = auth,
                               !.ran = handshakeCallbacks(variant, accepted)]]
    /\ UNCHANGED <<orch, variant, files, genSerial, pc, exitCode, listenCalled,
                   bindError, runHist, uncaughtLogged>>

\* A request arrives on an established connection and is answered.
Request(c, req) ==
    /\ pc = "listening"
    /\ conns[c].open
    /\ LET cn == conns[c] IN
       conns' = [conns EXCEPT ![c] =
                    [cn EXCEPT !.resp = handleRequest(variant, cn.authorized,
                                                      cn.client.cert, req),
                               !.ran = cn.ran \cup requestCallbacks(variant, req)]]
    /\ UNCHANGED <<orch, variant, files, genSerial, pc, exitCode, listenCalled,
                   bindError, runHist, uncaughtLogged>>

\* A callback running for connection c throws outside any try: with a
\* process.on('uncaughtException') listener the exception is logged and the
\* process goes on, without one the runtime ends the process and its
\* connections.
Fault(c) ==
    /\ pc = "listening"
    /\ conns[c].state # "Idle"
    /\ IF hasUncaughtListener(variant)
       THEN /\ uncaughtLogged' = TRUE
            /\ UNCHANGED <<pc, exitCode, conns>>
       ELSE /\ pc' = "exited"
            /\ exitCode' = UncaughtExitCode
            /\ conns' = [d \in ConnIds |-> IdleConn]
            /\ UNCHANGED uncaughtLogged
    /\ UNCHANGED <<orch, variant, files, genSerial, listenCalled, bindError,
                   runHist>>

Next ==
    \/ Startup
    \/ BindOk
    \/ BindFail
    \/ Stop
    \/ Restart
    \/ \E c \in ConnIds, cl \in Clients : Connect(c, cl)
    \/ \E c \in ConnIds : Handshake(c)
    \/ \E c \in ConnIds, req \in Requests : Request(c, req)
    \/ \E c \in ConnIds : Fault(c)

Spec == Init /\ [][Next]_vars

TypeOK ==
    /\ variant \in Variants
    /\ pc \in {"start", "binding", "listening", "exited"}
    /\ Len(runHist) <= MaxRuns

\* ------------------------------------------- the handlers on any input
\* The request handlers applied to every authorization flag and peer
\* certificate: the connections start established with the flag and the
\* certificate drawn freely, and requests are served on them.
HandlerInputs ==
    {[state |-> IF a THEN "Authenticated" ELSE "Rejected",
      client |-> [cert |-> ct, version |-> "TLSv1.2", cipher |-> GoodCipher],
      open |-> TRUE, authorized |-> a, ran |-> {}, resp |-> NoResp] :
        a \in BOOLEAN, ct \in Certs}

InitHandler ==
    /\ variant \in Variants
    /\ files = [f \in FileNames |-> [st |-> "ok", content |-> 0]]
    /\ genSerial = 0
    /\ pc = "listening"
    /\ exitCode = -1
    /\ listenCalled = TRUE
    /\ bindError = FALSE
    /\ runHist = <<>>
    /\ conns \in [ConnIds -> HandlerInputs]
    /\ uncaughtLogged = FALSE
    /\ orch = NoOrch

NextHandler == \E c \in ConnIds, req \in Requests : Request(c, req)

SpecHandler == InitHandler /\ [][NextHandler]_vars

\* ------------------------------------------- the test-server orchestrator
\* test-server.js spawns the server script, arms a 2-second timer that spawns
\* the diagnostics script, and listens for SIGINT.  The server child is the
\* process modelled above, started from any state of the PEM files.
serverVars == <<variant, files, genSerial, pc, exitCode, listenCalled,
                bindError, runHist, conns, uncaughtLogged>>

\* The scripts that can be server.js: the copy is named otherwise.
ServerScripts == {"part_000", "part_001"}

\* Exit codes the diagnostics child closes with.
DiagCodes == {0, 1}

InitOrch ==
    /\ variant \in ServerScripts
    /\ files \in InitFiles
    /\ genSerial = 0
    /\ pc = "start"
    /\ exitCode = -1
    /\ listenCalled = FALSE
    /\ bindError = FALSE
    /\ runHist = <<>>
    /\ conns = [c \in ConnIds |-> IdleConn]
    /\ uncaughtLogged = FALSE
    /\ orch = StartedOrch

\* The setTimeout callback: spawn the diagnostics child and listen for its
\* 'close'.
TimerFires ==
    /\ orch.pc = "running"
    /\ orch.timer = "pending"
    /\ orch' = [orch EXCEPT !.timer = "fired", !.diag = "running"]
    /\ UNCHANGED serverVars

\* diagnostics.on('close'): server.kill(), then process.exit(code).
DiagnosticsClose(code) ==
    /\ orch.pc = "running"
    /\ orch.diag = "running"
    /\ orch' = [orch EXCEPT !.diag = "closed", !.killIssued = TRUE,
                            !.pc = "exited", !.exit = code,
                            !.cause = "diagnostics"]
    /\ UNCHANGED serverVars

SigintNoKill ==
    /\ orch.pc = "running"
    /\ orch' = [orch EXCEPT !.pc = "exited", !.exit = 0, !.cause = "SIGINT"]
    /\ UNCHANGED serverVars

\* process.on('SIGINT'): server.kill(), then process.exit().
Sigint ==
    /\ orch.pc = "running"
    /\ orch' = [orch EXCEPT !.killIssued = TRUE, !.pc = "exited",
                            !.exit = 0, !.cause = "SIGINT"]
    /\ UNCHANGED serverVars

\* The signal sent by server.kill() ends the server child if it still runs.
ServerKilled ==
    /\ orch.killIssued
    /\ pc # "exited"
    /\ pc' = "exited"
    /\ exitCode' = KilledExitCode
    /\ conns' = [c \in ConnIds |-> IdleConn]
    /\ UNCHANGED <<orch, variant, files, genSerial, listenCalled, bindError,
                   runHist, uncaughtLogged>>

NextOrch ==
    \/ Startup
    \/ BindOk
    \/ BindFail
    \/ TimerFires
    \/ \E code \in DiagCodes : DiagnosticsClose(code)
    \/ Sigint
    \/ ServerKilled

SpecOrch == InitOrch /\ [][NextOrch]_vars

\* ------------------------------------------------------------- claims
IsExpress == variant \in {"part_000", "part_001"}

PeerInfo(ct) ==
    {[subject |-> ct.subject, issuer |-> ct.issuer,
      valid_from |-> ct.valid_from, valid_to |-> ct.valid_to]}

\* C1: a response of the status handler app.get('/') is the success payload
\* (status 'success' with the peer certificate's subject, issuer, valid_from
\* and valid_to) if and only if the connection's authorization flag is true;
\* when the flag is false it is HTTP 401 with exactly {status: 'error',
\* message: 'Client certificate verification failed'}, and no response on an
\* unauthorized connection carries the success payload or certificate fields.
C1_StatusHandlerGate ==
    \A c \in ConnIds :
        LET cn == conns[c] r == cn.resp IN
        /\ (IsExpress /\ r.checked) =>
              /\ cn.authorized =>
                    /\ r.code = 200
                    /\ r.status = "success"
                    /\ r.keys = {"status", "message", "clientInfo"}
                    /\ r.clientInfo = PeerInfo(cn.client.cert)
              /\ ~cn.authorized =>
                    /\ r.code = 401
                    /\ r.keys = {"status", "message"}
                    /\ r.status = "error"
                    /\ r.message = "Client certificate verification failed"
                    /\ r.clientInfo = NoInfo
        /\ (IsExpress /\ ~cn.authorized) =>
              r.status # "success" /\ r.clientInfo = NoInfo

C1_Witness ==
    /\ IsExpress
    /\ \E c, d \in ConnIds :
          /\ ~conns[c].authorized /\ conns[c].resp.code = 401
          /\ conns[c].resp.checked
          /\ conns[d].authorized /\ conns[d].resp.status = "success"
          /\ conns[d].client.cert = TestClientCert

\* C2: with requestCert and rejectUnauthorized set, a client with no
\* certificate or one that does not verify against the CA fails the
\* handshake and none of the middleware, the request handler and the
\* secureConnection callback runs for its connection; the request handler
\* runs only on connections whose authorization flag is true.
AppCallbacks == {"secureConnection", "middleware", "handler"}

C2_NoAppCodeForUnverified ==
    \A c \in ConnIds :
        LET cn == conns[c] IN
        /\ (cn.state # "Idle" /\ ~verifyPeer(cn.client.cert)) =>
              /\ cn.state \in {"Pending", "Rejected"}
              /\ ~cn.open
              /\ cn.ran \cap AppCallbacks = {}
              /\ cn.resp = NoResp
        /\ (cn.ran \cap {"middleware", "handler"} # {}) => cn.authorized

C2_Witness ==
    \E c, d \in ConnIds :
        /\ conns[c].state = "Rejected"
        /\ conns[c].client.cert = SelfSignedCert
        /\ "handler" \in conns[d].ran

\* C3: a start-up in which the CA file is missing, or one of the three PEM
\* files cannot be found or read when it is loaded, or the generation
\* subprocess fails, ends the process with a nonzero status without
\* server.listen being called; the program never writes the CA file.
StartupMustFail(r) ==
    \/ r.startFiles[caFile].st # "ok"
    \/ \E f \in FileNames : r.endFiles[f].st # "ok"
    \/ r.genOutcome \in {"fail", "fail_after_key"}

C3_FatalBootstrap ==
    /\ \A i \in 1..Len(runHist) :
          LET r == runHist[i] IN
          /\ StartupMustFail(r) => (r.exit > 0 /\ ~r.listen)
          /\ r.endFiles[caFile] = r.startFiles[caFile]
    /\ (pc # "start" /\ Len(runHist) > 0
           /\ StartupMustFail(runHist[Len(runHist)])) =>
          (pc = "exited" /\ exitCode > 0 /\ ~listenCalled)
    /\ files[caFile].content = 0

C3_Witness ==
    /\ pc = "exited" /\ exitCode = 1 /\ ~listenCalled
    /\ Len(runHist) > 0
    /\ runHist[Len(runHist)].startFiles[caFile].st = "absent"
    /\ runHist[Len(runHist)].startFiles[keyFile].st = "ok"
    /\ runHist[Len(runHist)].startFiles[certFile].st = "ok"

\* C4 (as claimed): generation is invoked only when both the key file and
\* the certificate file are absent, and whenever at least one of the two
\* exists at start-up, both are left as they were.
KeyCert == {keyFile, certFile}

Unchanged(r, fset) == \A f \in fset : r.endFiles[f] = r.startFiles[f]

C4_GenerateOnlyWhenBothAbsent ==
    \A i \in 1..Len(runHist) :
        LET r == runHist[i] IN
        /\ r.genCalls > 0 =>
              \A f \in KeyCert : ~existsSync(r.startFiles, f)
        /\ (\E f \in KeyCert : existsSync(r.startFiles, f)) =>
              Unchanged(r, KeyCert)

\* C4 (amended): generation is invoked only when at least one of the key
\* file and the certificate file is absent, and whenever both exist at
\* start-up, generation is not invoked and both are left as they were.
C4_GenerateOnlyWhenOneAbsent ==
    \A i \in 1..Len(runHist) :
        LET r == runHist[i] IN
        /\ r.genCalls > 0 =>
              \E f \in KeyCert : ~existsSync(r.startFiles, f)
        /\ (\A f \in KeyCert : existsSync(r.startFiles, f)) =>
              (r.genCalls = 0 /\ Unchanged(r, KeyCert))

C4_Witness ==
    /\ Len(runHist) = 2
    /\ runHist[1].startFiles[keyFile].st = "ok"
    /\ runHist[1].startFiles[certFile].st = "absent"
    /\ runHist[1].genOutcome = "ok"
    /\ runHist[2].genCalls = 0
    /\ \A f \in KeyCert : existsSync(runHist[2].startFiles, f)

\* C5: a start-up of the generating script that finds key and certificate
\* absent invokes generation exactly once, and when the subprocess succeeds
\* leaves one fresh key/certificate pair; every later start-up on those
\* files invokes no generation and leaves key and certificate exactly as
\* that first start-up left them.
FreshPair(i) ==
    LET r == runHist[i] IN
    /\ r.endFiles[keyFile].st = "ok"
    /\ r.endFiles[certFile].st = "ok"
    /\ r.endFiles[keyFile].content = r.endFiles[certFile].content
    /\ r.endFiles[keyFile].content > 0
    /\ \A h \in 1..(i - 1), f \in KeyCert :
          runHist[h].endFiles[f].content # r.endFiles[keyFile].content

C5_BootstrapIdempotent ==
    \A i \in 1..Len(runHist) :
        LET r == runHist[i] IN
        (generates(variant) /\ \A f \in KeyCert : ~existsSync(r.startFiles, f)) =>
            /\ r.genCalls = 1
            /\ r.genOutcome = "ok" =>
                  /\ FreshPair(i)
                  /\ \A j \in (i + 1)..Len(runHist) :
                        /\ runHist[j].genCalls = 0
                        /\ \A f \in KeyCert :
                              runHist[j].endFiles[f] = r.endFiles[f]
                  /\ \A f \in KeyCert : files[f] = r.endFiles[f]

C5_Witness ==
    /\ Len(runHist) = 2
    /\ \A f \in KeyCert : ~existsSync(runHist[1].startFiles, f)
    /\ runHist[1].genOutcome = "ok"
    /\ runHist[2].genCalls = 0
    /\ pc = "listening"

\* C6: every script bounds the protocol version by TLSv1.2 and TLSv1.3 and
\* gives the explicit cipher list, so a connection that negotiates a version
\* outside these bounds or a cipher outside the list never becomes
\* Authenticated.
C6_PolicyEnforcedEverywhere ==
    \A c \in ConnIds :
        conns[c].state = "Authenticated" =>
            /\ VersionRank(conns[c].client.version) >= VersionRank("TLSv1.2")
            /\ VersionRank(conns[c].client.version) <= VersionRank("TLSv1.3")
            /\ conns[c].client.cipher \in CipherAllowList

\* C7: when the listener cannot bind its port and the server emits 'error',
\* the process exits with a nonzero status.
C7_BindFailureExitsNonzero ==
    bindError => (pc = "exited" /\ exitCode > 0)

\* C8: a handshake error, an authorization rejection or an uncaught fault
\* on one connection ends at most that connection: the step leaves the
\* server process listening and every other connection as it was.
C8_ConnectionsIsolated ==
    [][\A c \in ConnIds :
          (Handshake(c) \/ Fault(c) \/ \E req \in Requests : Request(c, req)) =>
              /\ pc' = "listening"
              /\ \A d \in ConnIds \ {c} : conns'[d] = conns[d]]_vars

\* C9: while the process runs, a connection goes Pending -> Authenticated or
\* Pending -> Rejected and stays there: a Rejected connection never becomes
\* Authenticated or Pending again, and an Authenticated connection keeps its
\* state, its peer and its authorization flag over the requests served.
C9_TerminalOutcomes ==
    [][pc' = "listening" =>
         \A c \in ConnIds :
            LET a == conns[c] b == conns'[c] IN
            /\ a.state = "Idle" => b.state \in {"Idle", "Pending"}
            /\ a.state = "Pending" =>
                  b.state \in {"Pending", "Authenticated", "Rejected"}
            /\ a.state = "Rejected" =>
                  (b.state = "Rejected" /\ ~b.authorized /\ b.client = a.client)
            /\ a.state = "Authenticated" =>
                  (b.state = "Authenticated" /\ b.authorized
                   /\ b.client = a.client)]_vars

C9_Witness ==
    \E c, d \in ConnIds :
        /\ conns[c].state = "Rejected"
        /\ conns[d].state = "Authenticated"
        /\ conns[d].resp # NoResp

\* C10 (as claimed): for every method and path, OPTIONS included, no
\* response with a success status is sent unless the code that sent it
\* checked the connection's authorization flag and found it true.
SuccessStatus(r) == r.code >= 200 /\ r.code < 300

C10_NoSuccessWithoutCheck ==
    \A c \in ConnIds :
        SuccessStatus(conns[c].resp) =>
            (conns[c].resp.checked /\ conns[c].authorized)

\* C10 (amended): a response with a success status is either sent by code
\* that checked the connection's authorization flag and found it true, or
\* is the answer of the CORS middleware of the express scripts to an OPTIONS
\* request, which is sent without the check and carries no certificate
\* field.
C10_SuccessCheckedOrPreflight ==
    \A c \in ConnIds :
        LET r == conns[c].resp IN
        SuccessStatus(r) =>
            \/ r.checked /\ conns[c].authorized
            \/ IsExpress /\ r = preflightResponse /\ r.clientInfo = NoInfo

C10_Witness ==
    \E c, d \in ConnIds :
        /\ conns[c].resp = preflightResponse
        /\ SuccessStatus(conns[d].resp) /\ conns[d].resp.checked
        /\ conns[d].authorized

\* C11: the orchestrator exits only through its diagnostics 'close' handler
\* or its SIGINT handler, whether SIGINT comes before or after the timer
\* fired, and each calls server.kill() on the server child before it exits:
\* an exited orchestrator has always signalled the server child, and while
\* it runs the timer or the diagnostics child keeps it from ending otherwise.
C11_KillBeforeExit ==
    /\ orch.pc = "exited" =>
          (orch.killIssued /\ orch.cause \in {"diagnostics", "SIGINT"})
    /\ orch.pc = "running" =>
          (~orch.killIssued
           /\ (orch.timer = "pending" \/ orch.diag = "running"))
    /\ (pc = "exited" /\ exitCode = KilledExitCode) => orch.killIssued

C11_Witness ==
    /\ orch.pc = "exited"
    /\ orch.cause = "SIGINT"
    /\ orch.timer = "pending"
    /\ orch.killIssued
    /\ listenCalled
    /\ pc = "exited" /\ exitCode = KilledExitCode

====
